---- MODULE Spec2Model ----
(***************************************************************************)
(* Model of the gonk firmware: the rolling temperature history (logic.rs), *)
(* the sensor/display/wifi firmware (bin/main.rs) and the button watcher   *)
(* (bin/buttons.rs).  The three programs are separate binaries, each with  *)
(* its own specification over its own variables.                           *)
(*                                                                         *)
(* Floating-point values are modelled by integers; the average is kept as  *)
(* an exact fraction (sum, count), so f32 rounding is not modelled.        *)
(* Tasks run on a cooperative executor: `running` names the task that owns *)
(* the CPU; it is released only at an await that suspends.                 *)
(***************************************************************************)
EXTENDS Integers, Sequences, FiniteSets

\* ------------------------------------------------------------------ bounds
MaxRecords == 6

\* -------------------------------------------------------- program constants
CAPACITY == 5
SENTINEL == -999
RETRY_DELAY_MS == 5000
POLL_INTERVAL_MS == 500
REFRESH_INTERVAL_S == 60
IP_CAPACITY == 16
DEBOUNCE_MS == 50
COLD_LIMIT == 10
COOL_LIMIT == 20
COMFORTABLE_LIMIT == 25
WARM_LIMIT == 30
BUSY_TIMEOUT_MS == 10000
POLL_DIVISOR == 10
POLL_DELAY_MS == 10

VARIABLES
    \* logic.rs: AppLogic
    temperature_readings, reading_index, recorded,
    \* bin/main.rs: executor and tasks
    running, mainPc, connPc, hbPc, panic,
    \* bin/main.rs: SharedModel behind its mutex
    model, lockOwner,
    \* bin/main.rs: locals of the main task
    readRes, prevRead, cfgLocal, mainTimer, shown, udRes,
    \* bin/main.rs: radio driver and network stack as the tasks see them
    staState, discEvent, connectEvent, linkUp, stackConfig,
    \* bin/main.rs: connection task's timer and the requests it issued
    connTimer, prevReq, lastReq,
    \* bin/buttons.rs: one watcher per button
    line, bwPc, bwTimer, sampled, roundEvents,
    \* hardware.rs: BMP280Hardware, the outcome of its last read_temperature
    \* and whether a call of init has returned Ok
    calibration, tr, initOk,
    \* display.rs: init_epaper, its BUSY line and what it has done so far
    epdPc, polls, waitedMs, highPolls, busy, epdCreated, epdDrawn, epdRes,
    \* logic.rs: the last format_temperature and update_display_with_sensor
    formatted, udsCalls, udsRes

logicVars == <<temperature_readings, reading_index, recorded>>
mainVars == <<running, mainPc, connPc, hbPc, panic, model, lockOwner,
              readRes, prevRead, cfgLocal, mainTimer, shown, udRes,
              staState, discEvent, connectEvent, linkUp, stackConfig,
              connTimer, prevReq, lastReq>>
buttonVars == <<line, bwPc, bwTimer, sampled, roundEvents>>
sensorVars == <<calibration, tr, initOk>>
epdVars == <<epdPc, polls, waitedMs, highPolls, busy, epdCreated, epdDrawn,
             epdRes>>
appVars == <<formatted, udsCalls, udsRes>>
vars == <<logicVars, mainVars, buttonVars, sensorVars, epdVars, appVars>>

\* ================================================================ logic.rs
Temps == {5, 10, 20, 25, 30, 35}
Slots == 0 .. (CAPACITY - 1)
NoneReading == [some |-> FALSE, val |-> 0]
SomeReading(t) == [some |-> TRUE, val |-> t]

RECURSIVE SumSlots(_, _)
SumSlots(readings, S) ==
    IF S = {} THEN 0
    ELSE LET i == CHOOSE x \in S : TRUE
         IN (IF readings[i].some THEN readings[i].val ELSE 0)
            + SumSlots(readings, S \ {i})

CountSlots(readings) == Cardinality({i \in Slots : readings[i].some})

NextIndexStuck(i) == i
NextIndexWrapsEarly(i) == (i + 1) % (CAPACITY - 1)
NextIndex(i) == (i + 1) % CAPACITY

\* average_temperature: None, or Some(sum / count) kept as the exact fraction
AverageTemperature(readings) ==
    LET count == CountSlots(readings)
    IN IF count = 0
       THEN [some |-> FALSE, sum |-> 0, count |-> 0]
       ELSE [some |-> TRUE, sum |-> SumSlots(readings, Slots), count |-> count]

BelowOrEqual(avg, limit) == avg.sum <= limit * avg.count
\* Some(temp) if temp < limit, on the average kept as sum / count
Below(avg, limit) == avg.sum < limit * avg.count

\* temperature_status: the first arm of the match that applies
TemperatureStatus(readings) ==
    LET avg == AverageTemperature(readings)
    IN IF avg.some /\ Below(avg, COLD_LIMIT) THEN "Cold"
       ELSE IF avg.some /\ Below(avg, COOL_LIMIT) THEN "Cool"
       ELSE IF avg.some /\ Below(avg, COMFORTABLE_LIMIT) THEN "Comfortable"
       ELSE IF avg.some /\ Below(avg, WARM_LIMIT) THEN "Warm"
       ELSE IF avg.some THEN "Hot"
       ELSE "No data"

InitLogic ==
    /\ temperature_readings = [i \in Slots |-> NoneReading]
    /\ reading_index = 0
    /\ recorded = <<>>

record_temperature(t) ==
    /\ Len(recorded) < MaxRecords
    /\ temperature_readings' =
           [temperature_readings EXCEPT ![reading_index] = SomeReading(t)]
    /\ reading_index' = NextIndex(reading_index)
    /\ recorded' = Append(recorded, t)

NoLogicChange == UNCHANGED <<mainVars, buttonVars, sensorVars, epdVars>>

RecordStep ==
    \E t \in Temps : record_temperature(t) /\ NoLogicChange /\ UNCHANGED appVars

\* ============================================================= bin/main.rs
Measurements ==
    { [ok |-> TRUE, temperature |-> 21, humidity |-> 40, pressure |-> 1000],
      [ok |-> TRUE, temperature |-> 23, humidity |-> 55, pressure |-> 990] }
ReadErr == [ok |-> FALSE, temperature |-> 0, humidity |-> 0, pressure |-> 0]
NoRead == [ok |-> FALSE, temperature |-> 1, humidity |-> 1, pressure |-> 1]
ReadOutcomes == Measurements \cup {ReadErr}

NoAddr == <<0, 0, 0, 0, 0>>
Addrs == { <<10, 0, 0, 2, 24>>, <<10, 0, 0, 3, 24>>, <<192, 168, 100, 200, 24>> }
Unknown == [text |-> "UNKNOWN", addr |-> NoAddr]
Invalid == [text |-> "INVALID", addr |-> NoAddr]
AddrText(a) == [text |-> "ADDR", addr |-> a]
NoConfig == [some |-> FALSE, address |-> NoAddr]
SomeConfig(a) == [some |-> TRUE, address |-> a]

Digits(n) == IF n < 10 THEN 1 ELSE IF n < 100 THEN 2 ELSE 3
\* length of the text "a.b.c.d/len" that Display prints for the address
AddrLen(a) == Digits(a[1]) + Digits(a[2]) + Digits(a[3]) + Digits(a[4])
              + 3 + 1 + Digits(a[5])
FormatIpUnchecked(a) == AddrText(a)
\* heapless::format! into String<16>, "INVALID" when it does not fit
FormatIp(a) == IF AddrLen(a) <= IP_CAPACITY THEN AddrText(a) ELSE Invalid

BootModel == [temperature |-> 0, pressure |-> 0, humidity |-> 0,
              ip_address |-> Unknown]
NothingShown == [temperature |-> 0, humidity |-> 0, ip_address |-> Unknown,
                 lines |-> 0]

InitMain ==
    /\ running = "main"
    /\ mainPc = "iw_init"
    /\ connPc = "unspawned"
    /\ hbPc = "ready"
    /\ panic = "none"
    /\ model = BootModel
    /\ lockOwner = "none"
    /\ readRes = NoRead
    /\ prevRead = NoRead
    /\ cfgLocal = NoAddr
    /\ mainTimer = 0
    /\ shown = NothingShown
    /\ udRes = "none"
    /\ staState = "Invalid"
    /\ discEvent = FALSE
    /\ connectEvent = "none"
    /\ linkUp = FALSE
    /\ stackConfig = NoConfig
    /\ connTimer = 0
    /\ prevReq = "none"
    /\ lastReq = "none"

\* ---------------------------------------------------------------- executor
Panicked == panic # "none"

CanRun(t) == ~Panicked /\ running \in {"none", t}

NoMainChange == UNCHANGED <<logicVars, buttonVars, sensorVars, epdVars, appVars>>

\* embassy Mutex::lock().await: taken at once when free, else the task suspends
Lock(t, next) ==
    IF lockOwner = "none"
    THEN /\ lockOwner' = t
         /\ mainPc' = next
         /\ running' = t
    ELSE /\ running' = "none"
         /\ UNCHANGED <<lockOwner, mainPc>>

\* ------------------------------------------------- init_wifi (main task)
IwInit ==
    /\ CanRun("main") /\ mainPc = "iw_init"
    /\ \E ok \in BOOLEAN :
          IF ok
          THEN /\ connPc' = "top"
               /\ mainPc' = "iw_link_check"
               /\ running' = "main"
               /\ UNCHANGED panic
          ELSE /\ panic' = "radio_init"
               /\ UNCHANGED <<connPc, mainPc, running>>
    /\ UNCHANGED <<hbPc, model, lockOwner, readRes, prevRead, cfgLocal,
                   mainTimer, shown, udRes, staState, discEvent, connectEvent,
                   linkUp, stackConfig, connTimer, prevReq, lastReq>>
    /\ NoMainChange

IwLinkCheck ==
    /\ CanRun("main") /\ mainPc = "iw_link_check"
    /\ IF linkUp
       THEN /\ mainPc' = "iw_cfg_check"
            /\ running' = "main"
            /\ UNCHANGED mainTimer
       ELSE /\ mainPc' = "iw_link_sleep"
            /\ mainTimer' = POLL_INTERVAL_MS
            /\ running' = "none"
    /\ UNCHANGED <<connPc, hbPc, panic, model, lockOwner, readRes,
                   prevRead, cfgLocal, shown, udRes, staState, discEvent,
                   connectEvent, linkUp, stackConfig, connTimer, prevReq,
                   lastReq>>
    /\ NoMainChange

IwLinkWake ==
    /\ CanRun("main") /\ mainPc = "iw_link_sleep"
    /\ mainPc' = "iw_link_check"
    /\ mainTimer' = 0
    /\ running' = "main"
    /\ UNCHANGED <<connPc, hbPc, panic, model, lockOwner, readRes,
                   prevRead, cfgLocal, shown, udRes, staState, discEvent,
                   connectEvent, linkUp, stackConfig, connTimer, prevReq,
                   lastReq>>
    /\ NoMainChange

IwCfgCheck ==
    /\ CanRun("main") /\ mainPc = "iw_cfg_check"
    /\ IF stackConfig.some
       THEN /\ cfgLocal' = stackConfig.address
            /\ mainPc' = "iw_lock"
            /\ running' = "main"
            /\ UNCHANGED mainTimer
       ELSE /\ mainPc' = "iw_cfg_sleep"
            /\ mainTimer' = POLL_INTERVAL_MS
            /\ running' = "none"
            /\ UNCHANGED cfgLocal
    /\ UNCHANGED <<connPc, hbPc, panic, model, lockOwner, readRes,
                   prevRead, shown, udRes, staState, discEvent, connectEvent,
                   linkUp, stackConfig, connTimer, prevReq, lastReq>>
    /\ NoMainChange

IwCfgWake ==
    /\ CanRun("main") /\ mainPc = "iw_cfg_sleep"
    /\ mainPc' = "iw_cfg_check"
    /\ mainTimer' = 0
    /\ running' = "main"
    /\ UNCHANGED <<connPc, hbPc, panic, model, lockOwner, readRes,
                   prevRead, cfgLocal, shown, udRes, staState, discEvent,
                   connectEvent, linkUp, stackConfig, connTimer, prevReq,
                   lastReq>>
    /\ NoMainChange

IwLock ==
    /\ CanRun("main") /\ mainPc = "iw_lock"
    /\ Lock("main", "iw_write")
    /\ UNCHANGED <<connPc, hbPc, panic, model, readRes, prevRead,
                   cfgLocal, mainTimer, shown, udRes, staState, discEvent,
                   connectEvent, linkUp, stackConfig, connTimer, prevReq,
                   lastReq>>
    /\ NoMainChange

\* m.ip_address = format!(..).unwrap_or_else(INVALID); guard dropped; the
\* function returns to main
IwWrite ==
    /\ CanRun("main") /\ mainPc = "iw_write"
    /\ model' = [model EXCEPT !.ip_address = FormatIp(cfgLocal)]
    /\ lockOwner' = "none"
    /\ cfgLocal' = NoAddr
    /\ mainPc' = "hw_init"
    /\ running' = "main"
    /\ UNCHANGED <<connPc, hbPc, panic, readRes, prevRead, mainTimer,
                   shown, udRes, staState, discEvent, connectEvent, linkUp,
                   stackConfig, connTimer, prevReq, lastReq>>
    /\ NoMainChange

\* main builds the sensor object and the display hardware;
\* SSD1306Hardware::new(..).unwrap() panics when the driver reports an error
HwInit ==
    /\ CanRun("main") /\ mainPc = "hw_init"
    /\ \E ok \in BOOLEAN :
          IF ok
          THEN /\ mainPc' = "um_lock"
               /\ running' = "main"
               /\ UNCHANGED panic
          ELSE /\ panic' = "display_init"
               /\ UNCHANGED <<mainPc, running>>
    /\ UNCHANGED <<connPc, hbPc, model, lockOwner, readRes, prevRead,
                   cfgLocal, mainTimer, shown, udRes, staState, discEvent,
                   connectEvent, linkUp, stackConfig, connTimer, prevReq,
                   lastReq>>
    /\ NoMainChange

\* ----------------------------------------------- update_model (main task)
ErrWriteTempOnly(m, i) ==
    IF i = 3 THEN [m EXCEPT !.temperature = SENTINEL] ELSE m
ErrWriteClobbersIp(m, i) ==
    IF i = 1 THEN [m EXCEPT !.humidity = SENTINEL, !.ip_address = Invalid]
    ELSE IF i = 2 THEN [m EXCEPT !.pressure = SENTINEL]
    ELSE [m EXCEPT !.temperature = SENTINEL]
\* the i-th assignment of the Err arm
ErrWrite(m, i) ==
    IF i = 1 THEN [m EXCEPT !.humidity = SENTINEL]
    ELSE IF i = 2 THEN [m EXCEPT !.pressure = SENTINEL]
    ELSE [m EXCEPT !.temperature = SENTINEL]

OkWriteKeepsPressure(m, meas, i) ==
    IF i = 1 THEN [m EXCEPT !.humidity = meas.humidity]
    ELSE IF i = 2 THEN m
    ELSE [m EXCEPT !.temperature = meas.temperature]

OkWriteSkipsTemperature(m, meas, i) ==
    IF i = 1 THEN [m EXCEPT !.humidity = meas.humidity]
    ELSE IF i = 2 THEN [m EXCEPT !.pressure = meas.pressure]
    ELSE m

\* the i-th assignment of the Ok arm
OkWrite(m, meas, i) ==
    IF i = 1 THEN [m EXCEPT !.humidity = meas.humidity]
    ELSE IF i = 2 THEN [m EXCEPT !.pressure = meas.pressure]
    ELSE [m EXCEPT !.temperature = meas.temperature]

UmLock ==
    /\ CanRun("main") /\ mainPc = "um_lock"
    /\ Lock("main", "um_read")
    /\ UNCHANGED <<connPc, hbPc, panic, model, readRes, prevRead,
                   cfgLocal, mainTimer, shown, udRes, staState, discEvent,
                   connectEvent, linkUp, stackConfig, connTimer, prevReq,
                   lastReq>>
    /\ NoMainChange

UmRead ==
    /\ CanRun("main") /\ mainPc = "um_read"
    /\ \E r \in ReadOutcomes :
          /\ readRes' = r
          /\ prevRead' = readRes
    /\ mainPc' = "um_w1"
    /\ running' = "main"
    /\ UNCHANGED <<connPc, hbPc, panic, model, lockOwner, cfgLocal,
                   mainTimer, shown, udRes, staState, discEvent, connectEvent,
                   linkUp, stackConfig, connTimer, prevReq, lastReq>>
    /\ NoMainChange

UmWrite(i, here, next) ==
    /\ CanRun("main") /\ mainPc = here
    /\ model' = IF readRes.ok THEN OkWrite(model, readRes, i)
                ELSE ErrWrite(model, i)
    /\ mainPc' = next
    /\ running' = "main"
    /\ UNCHANGED <<connPc, hbPc, panic, lockOwner, readRes, prevRead,
                   cfgLocal, mainTimer, shown, udRes, staState, discEvent,
                   connectEvent, linkUp, stackConfig, connTimer, prevReq,
                   lastReq>>
    /\ NoMainChange

UmWrite1 == UmWrite(1, "um_w1", "um_w2")
UmWrite2 == UmWrite(2, "um_w2", "um_w3")
UmWrite3 == UmWrite(3, "um_w3", "um_ret")

\* Ok(()) is returned on both arms; the guard is dropped on return
UmRet ==
    /\ CanRun("main") /\ mainPc = "um_ret"
    /\ lockOwner' = "none"
    /\ mainPc' = "ud_clear"
    /\ running' = "main"
    /\ UNCHANGED <<connPc, hbPc, panic, model, readRes, prevRead,
                   cfgLocal, mainTimer, shown, udRes, staState, discEvent,
                   connectEvent, linkUp, stackConfig, connTimer, prevReq,
                   lastReq>>
    /\ NoMainChange

\* --------------------------------------------- update_display (main task)
\* `?` on a failed draw call: the function returns Err, any guard is dropped,
\* main logs the error and goes to its refresh timer
DrawErrNextStop == "halted"
\* where an Err of update_display leads: main prints it and goes to its timer
DrawErrNext == "loop_sleep"

ReturnToLoopKeepsLock(res) ==
    /\ lockOwner' = IF lockOwner = "main" /\ res = "ok" THEN "none" ELSE lockOwner
    /\ udRes' = res
    /\ mainPc' = IF res = "err" THEN DrawErrNext ELSE "loop_sleep"
    /\ mainTimer' = REFRESH_INTERVAL_S
    /\ running' = "none"

ReturnToLoop(res) ==
    /\ lockOwner' = IF lockOwner = "main" THEN "none" ELSE lockOwner
    /\ udRes' = res
    /\ mainPc' = IF res = "err" THEN DrawErrNext ELSE "loop_sleep"
    /\ mainTimer' = REFRESH_INTERVAL_S
    /\ running' = "none"

\* clear, title and separator line: drawn before the model is locked
UdDraw(here, next) ==
    /\ CanRun("main") /\ mainPc = here
    /\ \E ok \in BOOLEAN :
          IF ok
          THEN /\ mainPc' = next
               /\ running' = "main"
               /\ shown' = IF here = "ud_clear" THEN NothingShown
                           ELSE [shown EXCEPT !.lines = shown.lines + 1]
               /\ UNCHANGED <<lockOwner, mainTimer, udRes>>
          ELSE /\ ReturnToLoop("err")
               /\ UNCHANGED shown
    /\ UNCHANGED <<connPc, hbPc, panic, model, readRes, prevRead,
                   cfgLocal, staState, discEvent, connectEvent, linkUp,
                   stackConfig, connTimer, prevReq, lastReq>>
    /\ NoMainChange

UdClear == UdDraw("ud_clear", "ud_title")
UdTitle == UdDraw("ud_title", "ud_line")
UdLine == UdDraw("ud_line", "ud_lock")

UdLock ==
    /\ CanRun("main") /\ mainPc = "ud_lock"
    /\ Lock("main", "ud_temp")
    /\ UNCHANGED <<connPc, hbPc, panic, model, readRes, prevRead,
                   cfgLocal, mainTimer, shown, udRes, staState, discEvent,
                   connectEvent, linkUp, stackConfig, connTimer, prevReq,
                   lastReq>>
    /\ NoMainChange

\* format a field of the locked model and draw it
UdField(here, next, drawn) ==
    /\ CanRun("main") /\ mainPc = here
    /\ \E ok \in BOOLEAN :
          IF ok
          THEN /\ shown' = drawn
               /\ IF next = "loop_sleep"
                  THEN ReturnToLoop("ok")
                  ELSE /\ mainPc' = next
                       /\ running' = "main"
                       /\ UNCHANGED <<lockOwner, mainTimer, udRes>>
          ELSE /\ ReturnToLoop("err")
               /\ UNCHANGED shown
    /\ UNCHANGED <<connPc, hbPc, panic, model, readRes, prevRead,
                   cfgLocal, staState, discEvent, connectEvent, linkUp,
                   stackConfig, connTimer, prevReq, lastReq>>
    /\ NoMainChange

UdTemp == UdField("ud_temp", "ud_hum",
                  [shown EXCEPT !.temperature = model.temperature,
                                !.lines = shown.lines + 1])
UdHum == UdField("ud_hum", "ud_ip",
                 [shown EXCEPT !.humidity = model.humidity,
                               !.lines = shown.lines + 1])
UdIp == UdField("ud_ip", "loop_sleep",
                [shown EXCEPT !.ip_address = model.ip_address,
                              !.lines = shown.lines + 1])

\* Timer::after(REFRESH_INTERVAL_S) expired: next cycle
LoopWake ==
    /\ CanRun("main") /\ mainPc = "loop_sleep"
    /\ mainPc' = "um_lock"
    /\ mainTimer' = 0
    /\ udRes' = "none"
    /\ running' = "main"
    /\ UNCHANGED <<connPc, hbPc, panic, model, lockOwner, readRes,
                   prevRead, cfgLocal, shown, staState, discEvent,
                   connectEvent, linkUp, stackConfig, connTimer, prevReq,
                   lastReq>>
    /\ NoMainChange

MainStep ==
    \/ IwInit \/ IwLinkCheck \/ IwLinkWake \/ IwCfgCheck \/ IwCfgWake
    \/ IwLock \/ IwWrite \/ HwInit
    \/ UmLock \/ UmRead \/ UmWrite1 \/ UmWrite2 \/ UmWrite3 \/ UmRet
    \/ UdClear \/ UdTitle \/ UdLine \/ UdLock \/ UdTemp \/ UdHum \/ UdIp
    \/ LoopWake

\* ------------------------------------------------------- connection task
\* WifiController::is_started: the station has been started
IsStarted(st) == st \in {"Started", "Connected", "Disconnected"}

Issue(req) == prevReq' = lastReq /\ lastReq' = req

ConnectErrNextStop == "done"
\* where the Err arm of connect_async leads: the fixed delay, then the loop
ConnectErrNext == "fail_delay"

ConnectOkNextReconnect == "connect_req"
\* where the Ok arm of connect_async leads: the top of the loop
ConnectOkNext == "top"

ConnUnchangedMain ==
    UNCHANGED <<mainPc, hbPc, model, lockOwner, readRes, prevRead, cfgLocal,
                mainTimer, shown, udRes, linkUp, stackConfig>>

\* top of the loop: in Connected, wait for the StaDisconnected event
ConnTop ==
    /\ CanRun("conn") /\ connPc = "top"
    /\ IF staState = "Connected"
       THEN /\ connPc' = "wait_disc"
            /\ discEvent' = FALSE
            /\ running' = "none"
       ELSE /\ connPc' = "check_started"
            /\ running' = "conn"
            /\ UNCHANGED discEvent
    /\ UNCHANGED <<panic, staState, connectEvent, connTimer, prevReq,
                   lastReq>>
    /\ ConnUnchangedMain /\ NoMainChange

\* the disconnect notification arrived: start the fixed delay
ConnDisconnected ==
    /\ CanRun("conn") /\ connPc = "wait_disc" /\ discEvent
    /\ connPc' = "disc_delay"
    /\ connTimer' = RETRY_DELAY_MS
    /\ running' = "none"
    /\ UNCHANGED <<panic, staState, discEvent, connectEvent, prevReq,
                   lastReq>>
    /\ ConnUnchangedMain /\ NoMainChange

ConnDiscDelayWake ==
    /\ CanRun("conn") /\ connPc = "disc_delay"
    /\ connPc' = "check_started"
    /\ connTimer' = 0
    /\ running' = "conn"
    /\ UNCHANGED <<panic, staState, discEvent, connectEvent, prevReq,
                   lastReq>>
    /\ ConnUnchangedMain /\ NoMainChange

\* if !is_started: set_config(..).unwrap(), then start_async().await
ConnCheckStarted ==
    /\ CanRun("conn") /\ connPc = "check_started"
    /\ IF IsStarted(staState)
       THEN /\ connPc' = "connect_req"
            /\ running' = "conn"
            /\ UNCHANGED <<panic, prevReq, lastReq>>
       ELSE \E ok \in BOOLEAN :
               IF ok
               THEN /\ Issue("start")
                    /\ connPc' = "starting"
                    /\ running' = "none"
                    /\ UNCHANGED panic
               ELSE /\ panic' = "start"
                    /\ UNCHANGED <<connPc, running, prevReq, lastReq>>
    /\ UNCHANGED <<staState, discEvent, connectEvent, connTimer>>
    /\ ConnUnchangedMain /\ NoMainChange

\* start_async().await.unwrap() completed, then the scan is requested
ConnStarted ==
    /\ CanRun("conn") /\ connPc = "starting"
    /\ \E ok \in BOOLEAN :
          IF ok
          THEN /\ staState' = "Started"
               /\ Issue("scan")
               /\ connPc' = "scanning"
               /\ running' = "none"
               /\ UNCHANGED panic
          ELSE /\ panic' = "start"
               /\ UNCHANGED <<staState, prevReq, lastReq, connPc, running>>
    /\ UNCHANGED <<discEvent, connectEvent, connTimer>>
    /\ ConnUnchangedMain /\ NoMainChange

\* scan_with_config_async(..).await.unwrap() completed: print the access
\* points and go on to connect
ConnScanned ==
    /\ CanRun("conn") /\ connPc = "scanning"
    /\ \E ok \in BOOLEAN :
          IF ok
          THEN /\ connPc' = "connect_req"
               /\ running' = "conn"
               /\ UNCHANGED panic
          ELSE /\ panic' = "scan"
               /\ UNCHANGED <<connPc, running>>
    /\ UNCHANGED <<staState, discEvent, connectEvent, connTimer, prevReq,
                   lastReq>>
    /\ ConnUnchangedMain /\ NoMainChange

\* connect_async: clear the events, request the connection, await the event;
\* a request the driver refuses returns Err without suspending
ConnConnectReq ==
    /\ CanRun("conn") /\ connPc = "connect_req"
    /\ Issue("connect")
    /\ connPc' = "connecting"
    /\ \E accepted \in BOOLEAN :
          IF accepted
          THEN connectEvent' = "none" /\ running' = "none"
          ELSE connectEvent' = "refused" /\ running' = "conn"
    /\ UNCHANGED <<panic, staState, discEvent, connTimer>>
    /\ ConnUnchangedMain /\ NoMainChange

\* connect_async returned: Ok on StaConnected, Err on StaDisconnected or refusal
ConnConnectDone ==
    /\ CanRun("conn") /\ connPc = "connecting" /\ connectEvent # "none"
    /\ IF connectEvent = "connected"
       THEN /\ connPc' = ConnectOkNext
            /\ running' = "conn"
            /\ UNCHANGED connTimer
       ELSE /\ connPc' = ConnectErrNext
            /\ connTimer' = RETRY_DELAY_MS
            /\ running' = "none"
    /\ connectEvent' = "none"
    /\ UNCHANGED <<panic, staState, discEvent, prevReq, lastReq>>
    /\ ConnUnchangedMain /\ NoMainChange

ConnFailDelayWake ==
    /\ CanRun("conn") /\ connPc = "fail_delay"
    /\ connPc' = "top"
    /\ connTimer' = 0
    /\ running' = "conn"
    /\ UNCHANGED <<panic, staState, discEvent, connectEvent, prevReq,
                   lastReq>>
    /\ ConnUnchangedMain /\ NoMainChange

ConnStep ==
    \/ ConnTop \/ ConnDisconnected \/ ConnDiscDelayWake \/ ConnCheckStarted
    \/ ConnStarted \/ ConnScanned \/ ConnConnectReq \/ ConnConnectDone
    \/ ConnFailDelayWake

\* ------------------------------------------- radio driver and network stack
EnvUnchangedTasks ==
    UNCHANGED <<running, mainPc, connPc, hbPc, panic, model, lockOwner,
                readRes, prevRead, cfgLocal, mainTimer, shown, udRes, connTimer,
                prevReq, lastReq>>

\* the driver reports the outcome of the pending connect request
RadioConnectResult ==
    /\ ~Panicked /\ connPc = "connecting" /\ connectEvent = "none"
    /\ \E ok \in BOOLEAN :
          IF ok
          THEN staState' = "Connected" /\ connectEvent' = "connected"
          ELSE staState' = "Disconnected" /\ connectEvent' = "disconnected"
    /\ UNCHANGED <<discEvent, linkUp, stackConfig>>
    /\ EnvUnchangedTasks /\ NoMainChange

\* the link is lost: StaDisconnected is signalled, the stack loses its config
LinkLost ==
    /\ ~Panicked /\ staState = "Connected"
    /\ staState' = "Disconnected"
    /\ discEvent' = TRUE
    /\ connectEvent' = IF connPc = "connecting" THEN "disconnected"
                       ELSE connectEvent
    /\ linkUp' = FALSE
    /\ stackConfig' = NoConfig
    /\ EnvUnchangedTasks /\ NoMainChange

\* net_task: the stack sees the link
NetLinkUp ==
    /\ CanRun("net") /\ staState = "Connected" /\ ~linkUp
    /\ linkUp' = TRUE
    /\ UNCHANGED <<staState, discEvent, connectEvent, stackConfig>>
    /\ EnvUnchangedTasks /\ NoMainChange

\* net_task: DHCP assigns an address
DhcpAssign ==
    /\ CanRun("net") /\ linkUp /\ ~stackConfig.some
    /\ \E a \in Addrs : stackConfig' = SomeConfig(a)
    /\ UNCHANGED <<staState, discEvent, connectEvent, linkUp>>
    /\ EnvUnchangedTasks /\ NoMainChange

\* ---------------------------------------------------------- heartbeat task
HbUnchanged ==
    UNCHANGED <<mainPc, connPc, panic, model, lockOwner, readRes,
                prevRead, cfgLocal, mainTimer, shown, udRes, staState, discEvent,
                connectEvent, linkUp, stackConfig, connTimer, prevReq,
                lastReq>>

\* println, then Timer::after(HEART_BEAT_INTERVAL_MS).await
HbBeat ==
    /\ CanRun("hb") /\ hbPc = "ready"
    /\ hbPc' = "sleep"
    /\ running' = "none"
    /\ HbUnchanged /\ NoMainChange

HbWake ==
    /\ CanRun("hb") /\ hbPc = "sleep"
    /\ hbPc' = "ready"
    /\ running' = "hb"
    /\ HbUnchanged /\ NoMainChange

HbStep == HbBeat \/ HbWake

\* the panic handler: print, then loop on a blocking delay forever
PanicLoop == Panicked /\ UNCHANGED vars

\* ========================================================== bin/buttons.rs
Buttons == {"green", "blue"}

InitButtons ==
    /\ line = [b \in Buttons |-> "high"]
    /\ bwPc = [b \in Buttons |-> "idle"]
    /\ bwTimer = [b \in Buttons |-> 0]
    /\ sampled = [b \in Buttons |-> "none"]
    /\ roundEvents = [b \in Buttons |-> <<>>]

NoButtonChange == UNCHANGED <<logicVars, mainVars, sensorVars, epdVars, appVars>>

\* the line goes low; a watcher waiting in wait_for_falling_edge is woken
LineFall(b) ==
    /\ line[b] = "high"
    /\ line' = [line EXCEPT ![b] = "low"]
    /\ bwPc' = IF bwPc[b] = "idle" THEN [bwPc EXCEPT ![b] = "fell"] ELSE bwPc
    /\ UNCHANGED <<bwTimer, sampled, roundEvents>>
    /\ NoButtonChange

RiseWakesInDebounce(pc) == pc \in {"pressed", "debounce_press"}
\* wait_for_rising_edge is pending only after the press was reported
RiseWakes(pc) == pc = "pressed"

\* the line goes high; a watcher waiting in wait_for_rising_edge is woken
LineRise(b) ==
    /\ line[b] = "low"
    /\ line' = [line EXCEPT ![b] = "high"]
    /\ bwPc' = IF RiseWakes(bwPc[b]) THEN [bwPc EXCEPT ![b] = "rose"] ELSE bwPc
    /\ UNCHANGED <<bwTimer, sampled, roundEvents>>
    /\ NoButtonChange

\* woken by the falling edge: start the debounce timer
BwFell(b) ==
    /\ bwPc[b] = "fell"
    /\ bwPc' = [bwPc EXCEPT ![b] = "debounce_press"]
    /\ bwTimer' = [bwTimer EXCEPT ![b] = DEBOUNCE_MS]
    /\ sampled' = [sampled EXCEPT ![b] = "none"]
    /\ roundEvents' = [roundEvents EXCEPT ![b] = <<>>]
    /\ UNCHANGED line
    /\ NoButtonChange

SampleNextAlwaysPressed(level) == "pressed"
\* if button.is_low() { .. pressed .. } else back to the top of the loop
SampleNext(level) == IF level = "low" THEN "pressed" ELSE "idle"

\* the debounce timer expired: sample the line; when low, report the press
\* and wait for the rising edge
BwSample(b) ==
    /\ bwPc[b] = "debounce_press"
    /\ sampled' = [sampled EXCEPT ![b] = line[b]]
    /\ bwPc' = [bwPc EXCEPT ![b] = SampleNext(line[b])]
    /\ roundEvents' = IF SampleNext(line[b]) = "pressed"
                      THEN [roundEvents EXCEPT ![b] = Append(@, "press")]
                      ELSE roundEvents
    /\ bwTimer' = [bwTimer EXCEPT ![b] = 0]
    /\ UNCHANGED line
    /\ NoButtonChange

\* woken by the rising edge: report the release, then start the debounce timer
BwRose(b) ==
    /\ bwPc[b] = "rose"
    /\ roundEvents' = [roundEvents EXCEPT ![b] = Append(@, "release")]
    /\ bwPc' = [bwPc EXCEPT ![b] = "debounce_release"]
    /\ bwTimer' = [bwTimer EXCEPT ![b] = DEBOUNCE_MS]
    /\ UNCHANGED <<line, sampled>>
    /\ NoButtonChange

\* the release debounce expired: back to wait_for_falling_edge
BwReleased(b) ==
    /\ bwPc[b] = "debounce_release"
    /\ bwPc' = [bwPc EXCEPT ![b] = "idle"]
    /\ bwTimer' = [bwTimer EXCEPT ![b] = 0]
    /\ UNCHANGED <<line, sampled, roundEvents>>
    /\ NoButtonChange

\* main of buttons.rs: print, sleep one second, again
ButtonsMainLoop == UNCHANGED vars

NextButtons ==
    \/ \E b \in Buttons :
          \/ LineFall(b) \/ LineRise(b)
          \/ BwFell(b) \/ BwSample(b) \/ BwRose(b) \/ BwReleased(b)
    \/ ButtonsMainLoop

\* ============================================================= hardware.rs
I32_MAX == 2147483647
I32_MIN == (-I32_MAX) - 1

Abs(x) == IF x < 0 THEN -x ELSE x

ShrTrunc(x, n) == IF x >= 0 THEN x \div (2 ^ n) ELSE -((-x) \div (2 ^ n))
\* x >> n on i32: arithmetic shift, rounds toward minus infinity
Shr(x, n) == x \div (2 ^ n)

\* x << n on i32, for the operands of this file (no bit is shifted out)
Shl(x, n) == x * (2 ^ n)

\* a * b does not fit in i32 (decided without forming the product)
MulOverflows(a, b) ==
    /\ a # 0 /\ b # 0
    /\ IF (a > 0) = (b > 0)
       THEN Abs(a) > I32_MAX \div Abs(b)
       ELSE Abs(a) > ((I32_MAX - Abs(b) + 1) \div Abs(b)) + 1

AddOverflows(a, b) ==
    \/ b > 0 /\ a > I32_MAX - b
    \/ b < 0 /\ a < I32_MIN - b

\* a + b modulo 2^32, as i32
AddWrap(a, b) ==
    IF b > 0 /\ a > I32_MAX - b THEN (a - I32_MAX - 1) + (b - I32_MAX - 1)
    ELSE IF b < 0 /\ a < I32_MIN - b THEN (a + I32_MAX + 1) + (b + I32_MAX + 1)
    ELSE a + b

\* a * b modulo 2^32, as i32, for the operands of this file (|a| < 2^22,
\* |b| <= 2^16): b is split into its low byte and the rest, so that no
\* partial product leaves the range of the integers of the model
MulWrap(a, b) ==
    LET lo == a * (b % 256)
        hi == a * (b \div 256)
        h24 == hi % (2 ^ 24)
        hs == IF h24 >= 2 ^ 23 THEN h24 - 2 ^ 24 ELSE h24
    IN AddWrap(hs * 256, lo)

\* the raw bytes of registers 0xFA..0xFC and the calibration words tried
Byte0 == {0, 126, 255}
Byte1 == {0, 237, 255}
Byte2 == {0, 15, 255}
DigT1 == {0, 27504, 65535}
DigT2 == {-32768, 26435, 32767}
DigT3 == {-32768, -1000, 32767}

NoCalibration == [some |-> FALSE, dig_t1 |-> 0, dig_t2 |-> 0, dig_t3 |-> 0]
NoTemperature ==
    [res |-> "none", calib |-> NoCalibration, adc_t |-> 0, var1 |-> 0,
     var2 |-> 0, t_fine |-> 0, temperature |-> 0, overflow |-> FALSE]

\* adc_t: the three bytes put together (the or of disjoint bit fields)
AdcOf(b0, b1, b2) == Shl(b0, 12) + Shl(b1, 4) + Shr(b2, 4)

\* the compensation of read_temperature; temperature is kept in hundredths
\* of a degree (the conversion to f32 and the division by 100 are not
\* modelled).  In a build with overflow checks an overflowing operation
\* panics, in a build without them it wraps.
Compensate(adc, c, checks) ==
    LET d1 == Shr(adc, 3) - Shl(c.dig_t1, 1)
        p1 == MulWrap(d1, c.dig_t2)
        v1 == Shr(p1, 11)
        d2 == Shr(adc, 4) - c.dig_t1
        p2 == MulWrap(d2, d2)
        s2 == Shr(p2, 12)
        p3 == MulWrap(s2, c.dig_t3)
        v2 == Shr(p3, 14)
        tf == AddWrap(v1, v2)
        p4 == MulWrap(tf, 5)
        s4 == AddWrap(p4, 128)
        ovf == \/ MulOverflows(d1, c.dig_t2) \/ MulOverflows(d2, d2)
               \/ MulOverflows(s2, c.dig_t3) \/ AddOverflows(v1, v2)
               \/ MulOverflows(tf, 5) \/ AddOverflows(p4, 128)
    IN IF ovf /\ checks
       THEN [NoTemperature EXCEPT !.res = "panic", !.calib = c,
                                  !.adc_t = adc, !.overflow = TRUE]
       ELSE [res |-> "ok", calib |-> c, adc_t |-> adc, var1 |-> v1,
             var2 |-> v2, t_fine |-> tf, temperature |-> Shr(s4, 8),
             overflow |-> ovf]

InitSensor ==
    /\ calibration = NoCalibration
    /\ tr = NoTemperature
    /\ initOk = FALSE

NoSensorChange == UNCHANGED <<logicVars, mainVars, buttonVars, epdVars, appVars>>

\* how far init gets: a transfer up to the calibration read fails, a write
\* of the config or control register fails, or every transfer succeeds
InitOutcomes == {"early_err", "config_err", "ok"}

\* init: the calibration words are read from the sensor and stored, then the
\* config and control registers are written; a failing transfer returns Err
\* and leaves the object as it is at that point
SensorInit ==
    /\ tr.res # "panic"
    /\ \E outcome \in InitOutcomes, t1 \in DigT1, t2 \in DigT2, t3 \in DigT3 :
          /\ calibration' = IF outcome = "early_err"
                            THEN calibration
                            ELSE [some |-> TRUE, dig_t1 |-> t1, dig_t2 |-> t2,
                                  dig_t3 |-> t3]
          /\ initOk' = (initOk \/ outcome = "ok")
    /\ UNCHANGED tr
    /\ NoSensorChange

read_temperature ==
    /\ tr.res # "panic"
    /\ \E i2cOk \in BOOLEAN, checks \in BOOLEAN,
          b0 \in Byte0, b1 \in Byte1, b2 \in Byte2 :
          tr' = IF ~calibration.some
                THEN [NoTemperature EXCEPT !.res = "Sensor not initialized"]
                ELSE IF ~i2cOk
                THEN [NoTemperature EXCEPT !.res = "I2C read error"]
                ELSE Compensate(AdcOf(b0, b1, b2), calibration, checks)
    /\ UNCHANGED <<calibration, initOk>>
    /\ NoSensorChange

NextSensor == SensorInit \/ read_temperature

\* ============================================================== display.rs
TimeoutCyclesNoDivide == BUSY_TIMEOUT_MS
\* let timeout_cycles = BUSY_TIMEOUT_MS / 10
TimeoutCycles == BUSY_TIMEOUT_MS \div POLL_DIVISOR

InitEpaper ==
    /\ epdPc = "wait"
    /\ polls = 0
    /\ waitedMs = 0
    /\ highPolls = 0
    /\ busy = TRUE
    /\ epdCreated = FALSE
    /\ epdDrawn = FALSE
    /\ epdRes = "none"

NoEpaperChange == UNCHANGED <<logicVars, mainVars, buttonVars, sensorVars, appVars>>

\* the display drives its BUSY line on its own
BusyChange ==
    /\ busy' = ~busy
    /\ UNCHANGED <<epdPc, polls, waitedMs, highPolls, epdCreated, epdDrawn,
                   epdRes>>
    /\ NoEpaperChange

\* wait_for_display_ready, one pass of the for loop up to the delay:
\* BUSY not high returns Ok(()) and init_epaper goes on to the driver
EpdPoll ==
    /\ epdPc = "wait" /\ polls < TimeoutCycles
    /\ IF ~busy
       THEN epdPc' = "new_driver" /\ UNCHANGED highPolls
       ELSE epdPc' = "delay" /\ highPolls' = highPolls + 1
    /\ UNCHANGED <<polls, waitedMs, busy, epdCreated, epdDrawn, epdRes>>
    /\ NoEpaperChange

\* hw.delay.delay_millis(10), then the next pass
EpdDelay ==
    /\ epdPc = "delay"
    /\ waitedMs' = waitedMs + POLL_DELAY_MS
    /\ polls' = polls + 1
    /\ epdPc' = "wait"
    /\ UNCHANGED <<highPolls, busy, epdCreated, epdDrawn, epdRes>>
    /\ NoEpaperChange

\* the for loop is exhausted: Err("Display BUSY timeout"), which the `?` of
\* init_epaper returns to the caller
EpdTimeout ==
    /\ epdPc = "wait" /\ polls >= TimeoutCycles
    /\ epdRes' = "Display BUSY timeout"
    /\ epdPc' = "failed"
    /\ UNCHANGED <<polls, waitedMs, highPolls, busy, epdCreated, epdDrawn>>
    /\ NoEpaperChange

\* a step of init_epaper that maps the collaborator's error to a message
EpdFallible(here, next, err) ==
    /\ epdPc = here
    /\ \E ok \in BOOLEAN :
          IF ok
          THEN /\ epdPc' = next
               /\ epdCreated' = (epdCreated \/ here = "new_driver")
               /\ epdDrawn' = (epdDrawn \/ here = "draw")
               /\ epdRes' = IF next = "done" THEN "ok" ELSE epdRes
          ELSE /\ epdPc' = "failed"
               /\ epdRes' = err
               /\ UNCHANGED <<epdCreated, epdDrawn>>
    /\ UNCHANGED <<polls, waitedMs, highPolls, busy>>
    /\ NoEpaperChange

EpdNewDriver == EpdFallible("new_driver", "clear", "Failed to create EPD driver")
EpdClear == EpdFallible("clear", "draw", "Failed to clear display")
EpdDraw == EpdFallible("draw", "update", "Failed to draw text")
EpdUpdate == EpdFallible("update", "done", "Failed to update display")

EpaperStep ==
    \/ EpdPoll \/ EpdDelay \/ EpdTimeout
    \/ EpdNewDriver \/ EpdClear \/ EpdDraw \/ EpdUpdate

NextEpaper == EpaperStep \/ BusyChange

\* ============ logic.rs: format_temperature, update_display_with_sensor
\* A text is the sequence of the pieces the formatter hands to write_str;
\* every piece has a byte length, a number's pieces name the number.
FORMAT_CAPACITY == 32

NoValue == [neg |-> FALSE, digits |-> 0, num |-> 0, den |-> 0]

\* the number num/den, printed with digits digits before the point
Describe(num, den) ==
    [neg |-> num < 0, digits |-> Digits(Abs(num) \div den),
     num |-> num, den |-> den]

\* an f32 beyond the integers of the model, known by its sign and size only
Large(neg, digits) == [neg |-> neg, digits |-> digits, num |-> 0, den |-> 0]

\* arguments of format_temperature: 22.5, -999.0 and values of 25, 28 and
\* 39 digits (f32::MAX has 39)
FormatValues ==
    { Describe(45, 2), Describe(SENTINEL, 1),
      Large(FALSE, 25), Large(TRUE, 28), Large(FALSE, 39) }

Lit(s, n) == [part |-> s, len |-> n, val |-> NoValue]

\* "{:.1}": the sign if any, the integer digits, the point, one digit
NumPieces(v) ==
    (IF v.neg THEN << Lit("-", 1) >> ELSE << >>)
    \o << [part |-> "int", len |-> v.digits, val |-> v],
          Lit(".", 1),
          [part |-> "frac", len |-> 1, val |-> v] >>

StatusLen(s) ==
    CASE s = "Cold" -> 4
      [] s = "Cool" -> 4
      [] s = "Comfortable" -> 11
      [] s = "Warm" -> 4
      [] s = "Hot" -> 3
      [] OTHER -> 7

RECURSIVE TextLen(_)
TextLen(text) ==
    IF text = << >> THEN 0 ELSE Head(text).len + TextLen(Tail(text))

\* heapless::String::push_str copies the whole piece or nothing
PushFitsAlways(buf, piece) == TRUE
PushFits(buf, piece) == TextLen(buf) + piece.len <= FORMAT_CAPACITY

\* write! hands the pieces over in order and stops at the first that fails
RECURSIVE WriteFmt(_, _)
WriteFmt(buf, pieces) ==
    IF pieces = << >> THEN buf
    ELSE IF PushFits(buf, Head(pieces))
         THEN WriteFmt(Append(buf, Head(pieces)), Tail(pieces))
         ELSE buf

TemperatureText(v, status) ==
    NumPieces(v) \o << Lit("C ", 2), Lit(status, StatusLen(status)) >>

\* let _ = write!(buffer, "{:.1}C {}", temp, self.temperature_status())
FormatTemperature(v, readings) ==
    WriteFmt(<< >>, TemperatureText(v, TemperatureStatus(readings)))

AverageText(avg) ==
    << Lit("Avg: ", 5) >> \o NumPieces(Describe(avg.sum, avg.count))
    \o << Lit("C", 1) >>

\* what update_display_with_sensor returned: Ok, the sensor's error or the
\* error of the failed-th display call
UdsResult(kind, failed) == [kind |-> kind, failed |-> failed]

NoFormat == [arg |-> NoValue, status |-> "none", text |-> << >>]

InitApp ==
    /\ formatted = NoFormat
    /\ udsCalls = << >>
    /\ udsRes = UdsResult("none", 0)

NoAppChange == UNCHANGED <<logicVars, mainVars, buttonVars, sensorVars, epdVars>>

format_temperature ==
    \E v \in FormatValues :
        /\ formatted' = [arg |-> v,
                         status |-> TemperatureStatus(temperature_readings),
                         text |-> FormatTemperature(v, temperature_readings)]
        /\ UNCHANGED <<udsCalls, udsRes>>
        /\ NoAppChange

\* readings the sensor behind the trait can return
SensorTemps == {5, 35}

Call(op, text) == [op |-> op, text |-> text]

\* the display calls of one run in the order the function issues them
DisplayCalls(t, readings) ==
    LET avg == AverageTemperature(readings)
    IN  << Call("clear", << >>),
           Call("draw_text", FormatTemperature(Describe(t, 1), readings)) >>
        \o (IF avg.some
            THEN << Call("draw_text", WriteFmt(<< >>, AverageText(avg))) >>
            ELSE << >>)
        \o << Call("update", << >>) >>

\* the calls made when the failAt-th display call fails (0: none fails);
\* `?` returns at the first error
IssuedAll(calls, failAt) == calls
Issued(calls, failAt) ==
    IF failAt = 0 THEN calls ELSE SubSeq(calls, 1, failAt)

update_display_with_sensor ==
    \E sensorOk \in BOOLEAN, t \in SensorTemps, failAt \in 0..4 :
        IF ~sensorOk
        THEN /\ udsRes' = UdsResult("sensor_err", 0)
             /\ udsCalls' = << >>
             /\ UNCHANGED <<formatted, logicVars>>
             /\ NoLogicChange
        ELSE /\ record_temperature(t)
             /\ LET readings ==
                        [temperature_readings EXCEPT
                             ![reading_index] = SomeReading(t)]
                    calls == DisplayCalls(t, readings)
                IN  /\ udsCalls' = Issued(calls, failAt)
                    /\ udsRes' = IF failAt = 0
                                  THEN UdsResult("ok", 0)
                                  ELSE UdsResult("display_err", failAt)
             /\ UNCHANGED formatted
             /\ NoLogicChange

NextApp == format_temperature \/ update_display_with_sensor

Init ==
    /\ InitLogic /\ InitMain /\ InitButtons /\ InitSensor /\ InitEpaper
    /\ InitApp

\* init_epaper is straight-line blocking code: it keeps running
SpecEpaper == Init /\ [][NextEpaper]_vars /\ WF_vars(EpaperStep)

SpecSensor == Init /\ [][NextSensor]_vars

NextLogic == RecordStep

SpecLogic == Init /\ [][NextLogic]_vars

SpecApp == Init /\ [][NextApp]_vars

SpecButtons == Init /\ [][NextButtons]_vars

Next ==
    \/ MainStep \/ ConnStep \/ HbStep
    \/ RadioConnectResult \/ LinkLost \/ NetLinkUp \/ DhcpAssign
    \/ PanicLoop

Spec == Init /\ [][Next]_vars

\* the executor polls every woken task, every timer expires and the driver
\* answers every connect request
FairSpec ==
    /\ Spec
    /\ SF_vars(MainStep) /\ SF_vars(ConnStep) /\ SF_vars(HbStep)
    /\ WF_vars(RadioConnectResult)

\* ================================================================== claims
RECURSIVE SumSeq(_)
SumSeq(q) == IF q = <<>> THEN 0 ELSE Head(q) + SumSeq(Tail(q))

Min(a, b) == IF a < b THEN a ELSE b

\* the most recent min(CAPACITY, k) recorded values, oldest first
Recent(q) == SubSeq(q, Len(q) - Min(CAPACITY, Len(q)) + 1, Len(q))

\* C1: after k calls of record_temperature on a fresh AppLogic,
\* average_temperature is None iff k = 0, and otherwise it is the mean of the
\* most recent min(5, k) recorded values (sum / count compared as fractions).
C1_AverageOfRecent ==
    LET avg == AverageTemperature(temperature_readings)
        k == Len(recorded)
    IN /\ avg.some <=> k > 0
       /\ k > 0 => /\ avg.count = Min(CAPACITY, k)
                   /\ avg.sum * Min(CAPACITY, k)
                        = SumSeq(Recent(recorded)) * avg.count

\* a sixth value has evicted a first value that differs from it
C1_Witness ==
    /\ Len(recorded) = CAPACITY + 1
    /\ recorded[1] # recorded[CAPACITY + 1]
    /\ AverageTemperature(temperature_readings).some

SensorTriple(m) == <<m.temperature, m.humidity, m.pressure>>
TripleOf(r) ==
    IF r.ok THEN <<r.temperature, r.humidity, r.pressure>>
    ELSE <<SENTINEL, SENTINEL, SENTINEL>>
BootTriple == <<0, 0, 0>>

\* a task other than the writer in update_model holds the lock
ReaderHoldsLock ==
    /\ lockOwner # "none"
    /\ mainPc \notin {"um_read", "um_w1", "um_w2", "um_w3", "um_ret"}

\* C2: whenever a reader holds the SharedModel lock, temperature, humidity
\* and pressure are the three values of one acquisition cycle (one successful
\* read, or three sentinels) or the three boot values, never a mix.
C2_ReaderSeesOneCycle ==
    ReaderHoldsLock =>
        SensorTriple(model) \in
            {BootTriple} \cup {TripleOf(r) : r \in {readRes, prevRead} \ {NoRead}}

\* the renderer holds the lock on a failed cycle that follows a successful one
C2_Witness ==
    /\ lockOwner = "main" /\ mainPc = "ud_temp"
    /\ readRes = ReadErr /\ prevRead.ok
    /\ SensorTriple(model) = <<SENTINEL, SENTINEL, SENTINEL>>

DrawPcs == {"ud_clear", "ud_title", "ud_line", "ud_temp", "ud_hum", "ud_ip"}

\* C3: no drawing operation of the render step is issued while the
\* SharedModel lock is held.
DrawsOnlyUnlocked ==
    (mainPc \in DrawPcs /\ mainPc' # mainPc) => (lockOwner = "none")

C3_NoDrawWhileLocked == [][DrawsOnlyUnlocked]_vars

\* C4: when update_model has returned, a failed read has left the sentinel
\* in all three sensor fields, a successful read has left its three values
\* there (whatever the previous cycle wrote), and the device has not panicked.
C4_SentinelOnFailure ==
    mainPc \in {"um_ret", "ud_clear"} =>
        /\ ~Panicked
        /\ SensorTriple(model) = TripleOf(readRes)
        /\ ~readRes.ok => SensorTriple(model) = <<SENTINEL, SENTINEL, SENTINEL>>

\* a successful cycle has overwritten the sentinels of the failed one before it
C4_Witness ==
    /\ mainPc = "ud_clear"
    /\ prevRead = ReadErr /\ readRes.ok
    /\ SensorTriple(model) = TripleOf(readRes)

\* the result of the pending connect request is a failure
ConnectFailed ==
    connPc = "connecting" /\ connectEvent \in {"disconnected", "refused"}

RetryLoopPcs == {"top", "wait_disc", "disc_delay", "check_started",
                 "connect_req", "connecting", "fail_delay"}

ConnectRetryStep ==
    /\ (ConnectFailed /\ connPc' # connPc) =>
          (connPc' = "fail_delay" /\ connTimer' = RETRY_DELAY_MS)
    /\ (connPc = "fail_delay" /\ connPc' # connPc) => (connPc' = "top")
    /\ lastReq = "connect" =>
          /\ lastReq' = "connect"
          /\ connPc' \in RetryLoopPcs
          /\ panic' \notin {"start", "scan"}

StartingStepNotFatal ==
    connPc \in {"check_started", "starting"} => (panic' = "none")

C6_StartFailureNotFatal == [][StartingStepNotFatal]_vars

\* C7: whatever the outcome of the scan, the step that ends the Scanning
\* phase goes on to the connect request.
ScanStepProceeds ==
    (connPc = "scanning" /\ <<connPc, panic>>' # <<connPc, panic>>)
        => (connPc' = "connect_req")

C7_ScanAlwaysProceeds == [][ScanStepProceeds]_vars

\* the step issues a start, scan or connect request
IssuesRequest ==
    connPc' \in {"starting", "scanning", "connecting"} /\ connPc' # connPc

\* C8: while the station is Connected the connection task issues no request;
\* it leaves the wait only on the disconnect notification, into the fixed
\* delay, and leaves the delay into the retry (started check, then request).
ConnectedStep ==
    /\ staState = "Connected" => ~IssuesRequest
    /\ (connPc = "wait_disc" /\ connPc' # connPc) =>
          /\ discEvent
          /\ connPc' = "disc_delay"
          /\ connTimer' = RETRY_DELAY_MS
    /\ (connPc = "disc_delay" /\ connPc' # connPc) =>
          (connPc' = "check_started")

C8_SuspendedWhileConnected == [][ConnectedStep]_vars

\* the task is in its fixed delay after a disconnect notification
C8_Witness ==
    connPc = "disc_delay" /\ connTimer = RETRY_DELAY_MS /\ discEvent

\* C9: whenever the station is Connected and the stack holds an assigned
\* address, the model's address field eventually holds that address (as
\* formatted), unless the assignment is withdrawn first.
C9_AddressPublished ==
    \A a \in Addrs :
        (staState = "Connected" /\ stackConfig = SomeConfig(a))
            ~> (model.ip_address = FormatIp(a) \/ stackConfig # SomeConfig(a))

\* C10: for each watcher, a round in which the line was still low at the
\* debounce sample produces exactly one press and then exactly one release
\* (the press at the sample, the release at the rising edge); a round in
\* which the line was high again at the sample produces no event and ends in
\* Idle.
C10_OnePressOneRelease ==
    \A b \in Buttons :
        /\ sampled[b] = "high" => bwPc[b] \in {"idle", "fell"} /\ roundEvents[b] = <<>>
        /\ sampled[b] = "low" =>
              roundEvents[b] = IF bwPc[b] \in {"pressed", "rose"}
                               THEN <<"press">>
                               ELSE <<"press", "release">>
        /\ sampled[b] = "none" => roundEvents[b] = <<>>

\* green has completed a clean actuation, blue a transition that was over
\* before the sample
C10_Witness ==
    /\ bwPc["green"] = "idle" /\ sampled["green"] = "low"
    /\ line["green"] = "high"
    /\ roundEvents["green"] = <<"press", "release">>
    /\ bwPc["blue"] = "idle" /\ sampled["blue"] = "high"
    /\ roundEvents["blue"] = <<>>
\* the step emits the release event of some watcher
EmitsRelease(b) ==
    /\ roundEvents'[b] # roundEvents[b]
    /\ roundEvents'[b] = Append(roundEvents[b], "release")

\* C11: in Pressed the release event is emitted only after the debounce
\* interval that follows the rising edge has elapsed: the step that emits the
\* release is the one that ends the release debounce wait and returns to
\* Idle, never the one that is woken by the rising edge.
ReleaseAfterDebounce ==
    \A b \in Buttons :
        EmitsRelease(b) =>
            (bwPc[b] = "debounce_release" /\ bwPc'[b] = "idle")

C11_ReleaseAfterDebounce == [][ReleaseAfterDebounce]_vars

\* C12: the acquisition/render loop does not depend on the network: in every
\* execution in which the device does not halt, a sensor read eventually
\* happens, even if the link never comes up.
C12_SensorCycleEventually == <>(mainPc = "um_read" \/ Panicked)
\* the label of the band that holds the fraction sum / n, each threshold
\* belonging to the band above it
BandOf(sum, n) ==
    CHOOSE l \in {"Cold", "Cool", "Comfortable", "Warm", "Hot"} :
        /\ l = "Cold" <=> sum < 10 * n
        /\ l = "Cool" <=> (10 * n <= sum /\ sum < 20 * n)
        /\ l = "Comfortable" <=> (20 * n <= sum /\ sum < 25 * n)
        /\ l = "Warm" <=> (25 * n <= sum /\ sum < 30 * n)
        /\ l = "Hot" <=> 30 * n <= sum

\* C13: temperature_status is "No data" iff nothing was recorded; otherwise
\* it is the one band that holds the mean of the retained samples: Cold below
\* 10, Cool in [10, 20), Comfortable in [20, 25), Warm in [25, 30), Hot from
\* 30 on.
C13_StatusBands ==
    LET status == TemperatureStatus(temperature_readings)
        kept == Recent(recorded)
    IN /\ status = "No data" <=> recorded = <<>>
       /\ recorded # <<>> => status = BandOf(SumSeq(kept), Len(kept))

\* a full history of differing samples whose mean is exactly the threshold 25
C13_Witness ==
    /\ Len(recorded) = CAPACITY + 1
    /\ SumSeq(Recent(recorded)) = 25 * CAPACITY
    /\ recorded[2] # recorded[3]
    /\ TemperatureStatus(temperature_readings) = "Warm"
\* a draw call of update_display returns an error in this step
DrawFails == mainPc \in DrawPcs /\ udRes # "err" /\ udRes' = "err"

FailedFrameSkipped ==
    DrawFails =>
        /\ mainPc' = "loop_sleep"
        /\ mainTimer' = REFRESH_INTERVAL_S
        /\ lockOwner' = "none"
        /\ panic' = "none"
        /\ shown' = shown

\* C14: a draw call that fails ends the frame (nothing more is drawn, no
\* lock is left held, nothing panics) and sends the main task to its refresh
\* timer; the next acquisition and the next render then still run.
C14_RenderFailureSkipsFrame ==
    /\ [][FailedFrameSkipped]_vars
    /\ (udRes = "err") ~> (mainPc = "um_read")
    /\ (udRes = "err") ~> (mainPc = "ud_clear")

\* the humidity line failed to draw while the model was locked: the frame
\* stops after three lines and the main task waits for the next cycle
C14_Witness ==
    /\ udRes = "err" /\ mainPc = "loop_sleep" /\ shown.lines = 3
    /\ lockOwner = "none" /\ mainTimer = REFRESH_INTERVAL_S

\* C15: a driver initialization failure at boot does not halt the device:
\* the device never ends in the panic handler because the display hardware
\* could not be built.
C15_DriverInitNotFatal == panic # "display_init"
\* v is x shifted right by n bits with rounding toward minus infinity
FloorShift(v, x, n) ==
    /\ 0 <= x - v * (2 ^ n)
    /\ x - v * (2 ^ n) < 2 ^ n

ReferenceCalibration ==
    [some |-> TRUE, dig_t1 |-> 27504, dig_t2 |-> 26435, dig_t3 |-> -1000]

\* C16: when read_temperature returns a value and nothing overflowed, its
\* intermediates are those of the reference formula, every right shift
\* rounding toward minus infinity:
\*   var1 = (((adc>>3) - (T1<<1)) * T2) >> 11,
\*   var2 = (((((adc>>4) - T1) * ((adc>>4) - T1)) >> 12) * T3) >> 14,
\*   t_fine = var1 + var2, T = (t_fine*5 + 128) >> 8;
\* for the reference input (adc 519888, T1 27504, T2 26435, T3 -1000) they
\* are var1 = 128793, var2 = -371, t_fine = 128422 and T = 2508.
C16_ReferenceFormula ==
    (tr.res = "ok" /\ ~tr.overflow) =>
        LET c == tr.calib
            a3 == tr.adc_t \div 8
            a4 == tr.adc_t \div 16
            sq == (a4 - c.dig_t1) * (a4 - c.dig_t1)
        IN /\ tr.adc_t >= 0
           /\ FloorShift(tr.var1, (a3 - 2 * c.dig_t1) * c.dig_t2, 11)
           /\ FloorShift(tr.var2, (sq \div 4096) * c.dig_t3, 14)
           /\ tr.t_fine = tr.var1 + tr.var2
           /\ FloorShift(tr.temperature, tr.t_fine * 5 + 128, 8)
           /\ (tr.adc_t = 519888 /\ c = ReferenceCalibration) =>
                  /\ tr.var1 = 128793 /\ tr.var2 = -371
                  /\ tr.t_fine = 128422 /\ tr.temperature = 2508

\* the reference input has been read and compensated
C16_Witness ==
    /\ tr.res = "ok" /\ ~tr.overflow
    /\ tr.adc_t = 519888 /\ tr.calib = ReferenceCalibration
    /\ tr.var2 < 0 /\ tr.temperature = 2508

\* C17: for every raw value of 20 bits and calibration words within their
\* declared types, no product or sum of the compensation leaves the range of
\* a signed 32-bit integer.
C17_NoOverflow == ~tr.overflow /\ tr.res # "panic"
\* a poll that finds BUSY not high ends the wait at once, with Ok
OkAtFirstLowPoll ==
    (epdPc = "wait" /\ ~busy /\ polls < 1000 /\ epdPc' # epdPc)
        => (epdPc' = "new_driver" /\ epdRes' = "none")

\* C18: wait_for_display_ready polls BUSY at most 1000 times, 10 ms apart;
\* it returns Ok at the first poll that finds BUSY not high and the error
\* "Display BUSY timeout" only after 1000 polls that all found it high (10 s
\* of delay); init_epaper then fails without creating the driver or
\* drawing; in every case init_epaper terminates.
C18_BusyWaitBounded ==
    /\ [](polls <= 1000 /\ waitedMs = 10 * polls)
    /\ [](highPolls = IF epdPc = "delay" THEN polls + 1 ELSE polls)
    /\ [][OkAtFirstLowPoll]_vars
    /\ [](epdRes = "Display BUSY timeout" =>
            /\ polls = 1000 /\ highPolls = 1000 /\ waitedMs = BUSY_TIMEOUT_MS
            /\ epdPc = "failed" /\ ~epdCreated /\ ~epdDrawn)
    /\ <>(epdPc \in {"done", "failed"})

\* BUSY stayed high through every poll and the wait timed out
C18_Witness ==
    /\ epdRes = "Display BUSY timeout" /\ epdPc = "failed"
    /\ polls = TimeoutCycles /\ highPolls = TimeoutCycles
InitWifiPcs == {"iw_init", "iw_link_check", "iw_link_sleep", "iw_cfg_check",
                "iw_cfg_sleep", "iw_lock", "iw_write"}
UpdateModelPcs == {"um_lock", "um_read", "um_w1", "um_w2", "um_w3", "um_ret"}
UpdateDisplayPcs == DrawPcs \cup {"ud_lock"}

\* C19: writes to SharedModel are partitioned: while the main task is in
\* update_model no step changes the address, while it is in init_wifi no
\* step changes temperature, humidity or pressure, and while it is in
\* update_display (or between the functions) no step changes the model.
WritesPartitioned ==
    /\ mainPc \in UpdateModelPcs => (model'.ip_address = model.ip_address)
    /\ mainPc \in InitWifiPcs => (SensorTriple(model') = SensorTriple(model))
    /\ mainPc \notin (UpdateModelPcs \cup InitWifiPcs) => (model' = model)

C19_WritesPartitioned == [][WritesPartitioned]_vars

\* init_wifi has published an address, update_model has written a failed
\* read over a successful one and update_display has drawn the frame
C19_Witness ==
    /\ mainPc = "loop_sleep" /\ udRes = "ok"
    /\ model.ip_address \in {AddrText(a) : a \in Addrs}
    /\ prevRead.ok /\ readRes = ReadErr
    /\ SensorTriple(model) = <<SENTINEL, SENTINEL, SENTINEL>>
    /\ shown.ip_address = model.ip_address

\* C20: every loop of every task suspends in each iteration, so that under
\* the fair cooperative scheduler the heartbeat is never starved: it emits
\* its liveness signal infinitely often.
C20_HeartbeatForever == []<><<HbBeat>>_vars

\* C21: format_temperature never yields more than 32 bytes: the result is
\* the whole text "<value>C <status>" when that fits, and otherwise a prefix
\* of it.
C21_FormatBounded ==
    LET full == TemperatureText(formatted.arg, formatted.status)
        n == Len(formatted.text)
    IN  formatted # NoFormat =>
            /\ TextLen(formatted.text) <= 32
            /\ n <= Len(full)
            /\ formatted.text = SubSeq(full, 1, n)
            /\ TextLen(full) <= 32 => formatted.text = full

\* a text of more than 32 bytes was cut after the "C " that still fitted
C21_Witness ==
    /\ formatted # NoFormat
    /\ TextLen(TemperatureText(formatted.arg, formatted.status)) > 32
    /\ formatted.text # << >>
    /\ formatted.text[Len(formatted.text)].part = "C "
    /\ formatted.status = "Comfortable"

\* the slot written by a record is the one at the old index and it is the
\* only slot that changes
RingStep ==
    /\ temperature_readings'[reading_index]
           = SomeReading(recorded'[Len(recorded')])
    /\ \A i \in Slots \ {reading_index} :
           temperature_readings'[i] = temperature_readings[i]
    /\ Len(recorded) >= CAPACITY =>
           /\ temperature_readings[reading_index].some
           /\ temperature_readings[reading_index].val
                  = recorded[Len(recorded) - CAPACITY + 1]

\* C22: after k calls of record_temperature, reading_index = k mod 5, the
\* filled slots are exactly the first min(k, 5) indices, and each record
\* changes exactly one slot, the one at the old index, which holds the oldest
\* sample once the buffer is full.
C22_RingBuffer ==
    /\ [](LET k == Len(recorded)
          IN /\ reading_index \in Slots
             /\ reading_index = k % 5
             /\ \A i \in Slots :
                    temperature_readings[i].some <=> i < Min(k, 5)
             /\ CountSlots(temperature_readings) = Min(k, 5))
    /\ [][RingStep]_vars

\* a full buffer has wrapped: the seventh record is about to replace the
\* second
C22_Witness ==
    /\ Len(recorded) = 6
    /\ reading_index = 1
    /\ temperature_readings[0].val = recorded[6]
    /\ temperature_readings[1].val = recorded[2]
    /\ recorded[2] # recorded[6] /\ recorded[1] # recorded[2]

\* a step that changes the address field stores the address the stack was
\* assigned, or "INVALID" when its text is longer than 16 bytes
AddressWrite ==
    model'.ip_address # model.ip_address =>
        /\ model.ip_address = Unknown
        /\ cfgLocal \in Addrs
        /\ \/ /\ AddrLen(cfgLocal) <= 16
              /\ model'.ip_address = AddrText(cfgLocal)
           \/ /\ AddrLen(cfgLocal) > 16
              /\ model'.ip_address = Invalid

\* a step that draws the address line draws the field of the model
IpLineShowsModel ==
    (mainPc = "ud_ip" /\ shown'.lines = shown.lines + 1) =>
        shown'.ip_address = model.ip_address

\* C23: the address field of the model is "UNKNOWN" from boot until init_wifi
\* publishes the assigned address; it is written only with that address, or
\* with "INVALID" when the address does not fit 16 bytes; every address line
\* drawn shows the field as it is, so "UNKNOWN" before the publication
\* (no frame is drawn while init_wifi is still running).
C23_UnknownUntilPublished ==
    /\ [](mainPc \in InitWifiPcs =>
              model.ip_address = Unknown /\ shown = NothingShown)
    /\ [][AddressWrite]_vars
    /\ [][IpLineShowsModel]_vars

\* an address of 18 characters was published as "INVALID" and then drawn
C23_Witness ==
    /\ model.ip_address = Invalid
    /\ shown.ip_address = Invalid
    /\ shown.lines = 5
    /\ stackConfig = SomeConfig(<<192, 168, 100, 200, 24>>)

\* C24: a frame shows the sensor values of the most recent completed
\* update_model cycle: once the temperature (humidity) line of a frame is
\* drawn it is the value that cycle wrote, and no render starts before a
\* cycle has completed.
C24_FrameShowsLatestCycle ==
    LET latest == TripleOf(readRes)
    IN  /\ mainPc \in UpdateDisplayPcs => readRes # NoRead
        /\ mainPc \in {"ud_hum", "ud_ip"} => shown.temperature = latest[1]
        /\ mainPc = "ud_ip" => shown.humidity = latest[2]
        /\ (mainPc = "loop_sleep" /\ udRes = "ok") =>
               /\ shown.temperature = latest[1]
               /\ shown.humidity = latest[2]

\* a complete frame drawn after a second, different measurement
C24_Witness ==
    /\ mainPc = "loop_sleep" /\ udRes = "ok"
    /\ readRes.ok /\ prevRead.ok /\ readRes # prevRead
    /\ shown.temperature = readRes.temperature
    /\ shown.temperature # prevRead.temperature
    /\ shown.lines = 5

CallOrder == << "clear", "draw_text", "draw_text", "update" >>

\* the outcome of the last update_display_with_sensor and the calls it made
UdsOutcome ==
    LET n == Len(udsCalls)
        k == Len(recorded)
    IN  /\ udsRes.kind \in {"none", "sensor_err"} => udsCalls = << >>
        /\ udsRes.kind = "ok" => n = 4
        /\ udsRes.kind = "display_err" => n \in 1 .. 4 /\ n = udsRes.failed
        /\ \A i \in 1 .. n : udsCalls[i].op = CallOrder[i]
        /\ n >= 2 => udsCalls[2].text[1].val = Describe(recorded[k], 1)
        /\ n >= 3 =>
               /\ udsCalls[3].text[1].part = "Avg: "
               /\ udsCalls[3].text[2].val.num = SumSeq(Recent(recorded))
               /\ udsCalls[3].text[2].val.den = Min(CAPACITY, k)

\* a step either leaves the history alone and makes no display call, or
\* records one reading and goes on to the display
UdsStep ==
    \/ /\ UNCHANGED logicVars
       /\ udsCalls' = << >> \/ UNCHANGED <<udsCalls, udsRes>>
    \/ /\ Len(recorded') = Len(recorded) + 1
       /\ udsCalls' # << >>
       /\ udsRes'.kind \in {"ok", "display_err"}

\* C25: when the sensor read fails, update_display_with_sensor returns the
\* error with the history unchanged and without a display call; when it
\* succeeds the value is recorded whatever the display does, and the calls
\* are clear, draw_text(reading), draw_text(average), update in that order,
\* up to and including the first that fails.
C25_AllOrNothing == []UdsOutcome /\ [][UdsStep]_vars

\* the reading's draw_text failed after two records: clear and that
\* draw_text are the only calls
C25_Witness ==
    /\ udsRes = UdsResult("display_err", 2)
    /\ Len(udsCalls) = 2
    /\ udsCalls[2].op = "draw_text"
    /\ Len(recorded) = 2
    /\ CountSlots(temperature_readings) = 2

\* the events of a watcher's round are extended by one event, or a new round
\* starts and the round before it was complete
EventLogStep ==
    \A b \in Buttons :
        roundEvents'[b] # roundEvents[b] =>
            \/ \E e \in {"press", "release"} :
                   roundEvents'[b] = Append(roundEvents[b], e)
            \/ /\ roundEvents'[b] = << >>
               /\ roundEvents[b] = << "press", "release" >>

\* C26: the events of each watcher alternate press, release, press, ...
\* starting with a press, whatever the line does: the events of a round are a
\* prefix of press, release, and a new round starts only after a round that
\* was empty or complete.
C26_EventsAlternate ==
    /\ [](\A b \in Buttons :
              roundEvents[b] \in
                  { << >>, << "press" >>, << "press", "release" >> })
    /\ [][EventLogStep]_vars

\* green is back in Idle after a press and a release while its line is low
\* again: a bounce during the release debounce was not reported
C26_Witness ==
    /\ bwPc["green"] = "idle"
    /\ line["green"] = "low"
    /\ roundEvents["green"] = << "press", "release" >>
    /\ roundEvents["blue"] = << "press" >>

LockPcs == {"iw_lock", "um_lock", "ud_lock"}
LockedPcs == {"iw_write", "um_read", "um_w1", "um_w2", "um_w3", "um_ret",
              "ud_temp", "ud_hum", "ud_ip"}

\* C27: the holder of the SharedModel lock is never suspended, the lock is
\* held exactly inside the locked regions (so it is released on every path
\* out of them, a failed draw included), it is free whenever a task is about
\* to take it, and every acquisition succeeds.
C27_LockDiscipline ==
    /\ [](lockOwner # "none" => lockOwner = "main" /\ running = "main")
    /\ [](lockOwner = "main" <=> mainPc \in LockedPcs)
    /\ [](mainPc \in LockPcs => lockOwner = "none")
    /\ (mainPc \in LockPcs ~> lockOwner = "main")

\* a draw call inside the locked block of update_display failed (title and
\* separator were drawn, the address line was not) and the lock is free
C27_Witness ==
    /\ mainPc = "loop_sleep" /\ udRes = "err"
    /\ shown.lines \in 2 .. 4
    /\ lockOwner = "none"
    /\ readRes # NoRead

\* C28: as long as no call of init has returned Ok, read_temperature returns
\* "Sensor not initialized" (and so makes no bus transfer): a value, a bus
\* error or an arithmetic panic is possible only after a successful init.
C28_ValueOnlyAfterInitOk ==
    ~initOk => tr.res \in {"none", "Sensor not initialized"}

====
